---------------------------- MODULE Spec2Model ----------------------------
(***************************************************************************)
(* VoxScriptum: the text pipeline of src/src/book_input_handler.py         *)
(* (merge_paragraphs, find_similar_strings,                                *)
(* filter_strings_with_english_words) and src/src/ai_book_processing.py    *)
(* (clean_and_chain, find_misspelled_words, chain_functions under the      *)
(* modify_return wrapper).                                                 *)
(*                                                                         *)
(* A Python str is a sequence of characters; a character is a one-token    *)
(* TLA+ string.  Characters that have no printable form are named tokens   *)
(* (NBSP, DEL, EACUTE, COMBACUTE).  Python's None is the value None.       *)
(***************************************************************************)
EXTENDS Integers, Sequences, FiniteSets, TLC

VARIABLES
    \* merge_paragraphs
    lines, seg_i, buffer, paragraphs, seg_pc,
    \* find_similar_strings
    strings, threshold, d_i, similar_groups, items_to_remove, filtered_strings, d_pc,
    \* filter_strings_with_english_words, called on its own
    f_strings, f_i, f_filtered, f_pc,
    \* clean_and_chain, applied once and then again to its own output
    n_in, n_raises, n_out, n_out2, n_pc,
    \* chain_functions under modify_return; trace is the history of the calls
    \* made, in the order they were made
    modifiers, mode, clean_paragraph, result, calls, trace, m_i, o_pc

segVars  == <<lines, seg_i, buffer, paragraphs, seg_pc>>
dedVars  == <<strings, threshold, d_i, similar_groups, items_to_remove, filtered_strings, d_pc>>
filVars  == <<f_strings, f_i, f_filtered, f_pc>>
normVars == <<n_in, n_raises, n_out, n_out2, n_pc>>
orchVars == <<modifiers, mode, clean_paragraph, result, calls, trace, m_i, o_pc>>
vars     == <<segVars, dedVars, filVars, normVars, orchVars>>

----------------------------------------------------------------------------
(* Characters *)

SP        == " "
NL        == "\n"
TAB       == "\t"
CR        == "\r"
NBSP      == "U+00A0"
DEL       == "U+007F"
EACUTE    == "U+00E9"
COMBACUTE == "U+0301"

\* Python's None: a value that is no str.
None == <<"None">>

\* The characters str.strip() and the regex class \s take for whitespace.
Whitespace == {SP, NL, TAB, CR, NBSP}

\* The characters above U+007F.
NonAscii == {NBSP, EACUTE, COMBACUTE}

\* str.lower() on one character.
LowerChar(c) ==
    CASE c = "A" -> "a"
      [] c = "C" -> "c"
      [] c = "P" -> "p"
      [] c = "T" -> "t"
      [] OTHER   -> c

\* str.lower()
Lower(s) == [k \in 1..Len(s) |-> LowerChar(s[k])]

----------------------------------------------------------------------------
(* Sequence helpers *)

RECURSIVE SeqsUpTo(_, _)
\* Every sequence over S of length at most n.
SeqsUpTo(S, n) ==
    IF n = 0 THEN {<<>>}
    ELSE LET shorter == SeqsUpTo(S, n - 1)
         IN  shorter \cup {Append(s, x) : s \in shorter, x \in S}

RECURSIVE Repeat(_, _)
\* c * n
Repeat(c, n) == IF n = 0 THEN <<>> ELSE <<c>> \o Repeat(c, n - 1)

RECURSIVE Concat(_)
\* ''.join(parts)
Concat(parts) == IF parts = <<>> THEN <<>> ELSE Head(parts) \o Concat(Tail(parts))

RECURSIVE JoinSpace(_)
\* ' '.join(parts)
JoinSpace(parts) ==
    IF parts = <<>> THEN <<>>
    ELSE IF Len(parts) = 1 THEN parts[1]
    ELSE parts[1] \o <<SP>> \o JoinSpace(Tail(parts))

Range(s) == {s[k] : k \in 1..Len(s)}

\* s.startswith(p) at position k (1-based)
MatchAt(s, k, p) ==
    /\ k + Len(p) - 1 <= Len(s)
    /\ \A j \in 1..Len(p) : s[k + j - 1] = p[j]

RECURSIVE ReplaceFrom(_, _, _, _)
\* str.replace(old, new), scanning left to right from position k.
ReplaceFrom(s, k, old, new) ==
    IF k > Len(s) THEN <<>>
    ELSE IF MatchAt(s, k, old) THEN new \o ReplaceFrom(s, k + Len(old), old, new)
    ELSE <<s[k]>> \o ReplaceFrom(s, k + 1, old, new)

Replace(s, old, new) == ReplaceFrom(s, 1, old, new)

\* str.strip()
Strip(s) ==
    LET keep == {k \in 1..Len(s) : s[k] \notin Whitespace}
    IN  IF keep = {} THEN <<>>
        ELSE LET lo == CHOOSE k \in keep : \A j \in keep : k <= j
                 hi == CHOOSE k \in keep : \A j \in keep : k >= j
             IN  SubSeq(s, lo, hi)

----------------------------------------------------------------------------
(* merge_paragraphs *)

SentenceEnd == {".", "!", "?"}

\* A mutant of EndsSentence: '!' is not taken for the end of a sentence.
EndsSentenceNoBang(line) == line[Len(line)] \in {".", "?"}

\* A mutant of EndsSentence: the first character is tested, not the last.
EndsSentenceFirstChar(line) == line[1] \in SentenceEnd

\* line[-1] in [".", "!", "?"], for a non-empty stripped line
EndsSentence(line) == line[Len(line)] \in SentenceEnd

\* The lines merge_paragraphs is run on: every string of at most two
\* characters over a letter, a full stop and a space, and a few more with
\* the other sentence ends and inner whitespace.
LineAlphabet == {"a", ".", SP}
LineSamples ==
    {<<>>} \cup {<<c>> : c \in LineAlphabet}
           \cup {<<c, d>> : c \in LineAlphabet, d \in LineAlphabet}
           \cup { <<"a", "!">>, <<"?">>, <<"a", "?", SP>>, <<"!", "a">>,
                  <<NL, "a", SP, "a", TAB>> }
MaxLines == 3

\* The lines of the docstring's example: ["Hello, ", "world.", "How ", "are you?"]
HelloWorld ==
    << <<"H", "e", "l", "l", "o", ",", SP>>,
       <<"w", "o", "r", "l", "d", ".">>,
       <<"H", "o", "w", SP>>,
       <<"a", "r", "e", SP, "y", "o", "u", "?">> >>

\* A mutant of MergeLine: the line goes to the buffer with no space after it.
MergeLineNoSpace ==
    /\ seg_pc = "loop"
    /\ seg_i <= Len(lines)
    /\ LET line == Strip(lines[seg_i])
       IN  IF line = <<>>
           THEN UNCHANGED <<buffer, paragraphs>>
           ELSE LET buf == buffer \o line
                IN  IF EndsSentence(line)
                    THEN /\ paragraphs' = Append(paragraphs, Strip(buf))
                         /\ buffer' = <<>>
                    ELSE /\ buffer' = buf
                         /\ UNCHANGED paragraphs
    /\ seg_i' = seg_i + 1
    /\ UNCHANGED <<lines, seg_pc>>
    /\ UNCHANGED <<dedVars, filVars, normVars, orchVars>>

\* One pass of the loop over lines.
MergeLine ==
    /\ seg_pc = "loop"
    /\ seg_i <= Len(lines)
    /\ LET line == Strip(lines[seg_i])
       IN  IF line = <<>>
           THEN UNCHANGED <<buffer, paragraphs>>
           ELSE LET buf == buffer \o line \o <<SP>>
                IN  IF EndsSentence(line)
                    THEN /\ paragraphs' = Append(paragraphs, Strip(buf))
                         /\ buffer' = <<>>
                    ELSE /\ buffer' = buf
                         /\ UNCHANGED paragraphs
    /\ seg_i' = seg_i + 1
    /\ UNCHANGED <<lines, seg_pc>>
    /\ UNCHANGED <<dedVars, filVars, normVars, orchVars>>

\* A mutant of MergeReturn: the buffer is flushed whether it is empty or not.
MergeReturnUngated ==
    /\ seg_pc = "loop"
    /\ seg_i > Len(lines)
    /\ paragraphs' = Append(paragraphs, Strip(buffer))
    /\ seg_pc' = "done"
    /\ UNCHANGED <<lines, seg_i, buffer>>
    /\ UNCHANGED <<dedVars, filVars, normVars, orchVars>>

\* After the loop: what is left in the buffer becomes the last paragraph.
MergeReturn ==
    /\ seg_pc = "loop"
    /\ seg_i > Len(lines)
    /\ paragraphs' = IF buffer # <<>> THEN Append(paragraphs, Strip(buffer)) ELSE paragraphs
    /\ seg_pc' = "done"
    /\ UNCHANGED <<lines, seg_i, buffer>>
    /\ UNCHANGED <<dedVars, filVars, normVars, orchVars>>

----------------------------------------------------------------------------
(* filter_strings_with_english_words *)

LongStringLen == 50
MinWordLen    == 3

\* set(words.words()): the entries of the word list that the strings below
\* can hit.  "Aaron" is listed capitalised only.
english_words ==
    { <<"p", "a", "g", "e">>, <<"p", "a", "g", "e", "s">>, <<"t", "h", "e">>,
      <<"A", "a", "r", "o", "n">> }

Punctuation == {".", "!", "?", ","}

CharClass(c) ==
    IF c \in Whitespace THEN "space"
    ELSE IF c \in Punctuation THEN "punct"
    ELSE "word"

RECURSIVE TokenizeFrom(_, _, _)
\* word_tokenize(string) from position k on, cur being the token in the making:
\* whitespace separates tokens, and punctuation is split from the word before it.
TokenizeFrom(s, k, cur) ==
    IF k > Len(s) THEN (IF cur = <<>> THEN <<>> ELSE <<cur>>)
    ELSE LET c == s[k]
         IN  IF CharClass(c) = "space"
             THEN (IF cur = <<>> THEN <<>> ELSE <<cur>>) \o TokenizeFrom(s, k + 1, <<>>)
             ELSE IF cur # <<>> /\ CharClass(cur[1]) # CharClass(c)
             THEN <<cur>> \o TokenizeFrom(s, k + 1, <<c>>)
             ELSE TokenizeFrom(s, k + 1, Append(cur, c))

word_tokenize(s) == TokenizeFrom(s, 1, <<>>)

\* any(token.lower() in english_words and len(token) > 3 for token in tokens)
HasEnglishWord(string) ==
    \E token \in Range(word_tokenize(string)) :
        Lower(token) \in english_words /\ Len(token) > MinWordLen

\* A mutant of KeepString: a string of exactly 50 characters is kept unlooked too.
KeepStringAtFifty(string) == Len(string) >= LongStringLen \/ HasEnglishWord(string)

\* Whether one pass of the loop appends string to filtered_strings.
KeepString(string) == Len(string) > LongStringLen \/ HasEnglishWord(string)

\* The whole function, as find_similar_strings calls it.
filter_strings_with_english_words(ss) == SelectSeq(ss, KeepString)

X50    == Repeat("x", LongStringLen)
X51    == Repeat("x", LongStringLen + 1)
Page45 == <<"p", "a", "g", "e", SP>> \o Repeat("x", LongStringLen - 5)
Page46 == <<"p", "a", "g", "e", SP>> \o Repeat("x", LongStringLen - 4)

FilterSamples ==
    { <<>>, <<".", ".", ".">>, <<"t", "h", "e">>, <<"p", "a", "g", "e">>,
      <<"P", "a", "g", "e">>, <<"A", "a", "r", "o", "n">>,
      <<"p", "a", "g", "e", SP, "1", "2">>, <<"1", "2">>,
      <<"t", "h", "e", SP, "p", "a", "g", "e", ".">>,
      X50, X51, Page45, Page46 }
MaxFilterItems == 2

\* One pass of the loop over strings.
FilterString ==
    /\ f_pc = "loop"
    /\ f_i <= Len(f_strings)
    /\ f_filtered' = IF KeepString(f_strings[f_i])
                     THEN Append(f_filtered, f_strings[f_i])
                     ELSE f_filtered
    /\ f_i' = f_i + 1
    /\ UNCHANGED <<f_strings, f_pc>>
    /\ UNCHANGED <<segVars, dedVars, normVars, orchVars>>

FilterReturn ==
    /\ f_pc = "loop"
    /\ f_i > Len(f_strings)
    /\ f_pc' = "done"
    /\ UNCHANGED <<f_strings, f_i, f_filtered>>
    /\ UNCHANGED <<segVars, dedVars, normVars, orchVars>>

----------------------------------------------------------------------------
(* find_similar_strings *)

DefaultThreshold == 60
MinGroupSize     == 3

Min(a, b) == IF a <= b THEN a ELSE b

\* SequenceMatcher's autojunk (__chain_b): once b has 200 elements or more,
\* an element that occurs more than len(b) // 100 + 1 times in b is popular
\* and is dropped from b2j, so that no match can start from it.
AutojunkLen == 200
bpopular(b) ==
    IF Len(b) < AutojunkLen THEN {}
    ELSE {c \in Range(b) :
            Cardinality({k \in 1..Len(b) : b[k] = c}) > Len(b) \div 100 + 1}

\* The blocks a[i..i+k-1] = b[j..j+k-1], k >= 1, inside a[alo..ahi], b[blo..bhi],
\* each as <<i, j, k>>, that the scan over b2j builds: blocks with no popular
\* element of b in them.
CommonBlocks(a, alo, ahi, b, blo, bhi) ==
    LET popular == bpopular(b)
        starts == {p \in (alo..ahi) \X (blo..bhi) :
                     a[p[1]] = b[p[2]] /\ b[p[2]] \notin popular}
        sizes(p) == {k \in 1..Min(ahi - p[1] + 1, bhi - p[2] + 1) :
                        \A d \in 0..(k - 1) :
                            a[p[1] + d] = b[p[2] + d] /\ b[p[2] + d] \notin popular}
    IN  UNION {{<<p[1], p[2], k>> : k \in sizes(p)} : p \in starts}

\* The scan of find_longest_match: the longest block, the earliest in a
\* among the longest, the earliest in b among those.
LongestMatch(blocks) ==
    CHOOSE t \in blocks : \A u \in blocks :
        \/ t[3] > u[3]
        \/ t[3] = u[3] /\ t[1] < u[1]
        \/ t[3] = u[3] /\ t[1] = u[1] /\ t[2] <= u[2]

\* The end of find_longest_match: the block is extended to the left and to
\* the right as long as the elements next to it are equal, popular or not
\* (no element is junk: isjunk is None).
ExtendMatch(a, alo, ahi, b, blo, bhi, t) ==
    LET lefts  == {l \in 0..Min(t[1] - alo, t[2] - blo) :
                      \A d \in 1..l : a[t[1] - d] = b[t[2] - d]}
        left   == CHOOSE l \in lefts : \A o \in lefts : l >= o
        i      == t[1] - left
        j      == t[2] - left
        k      == t[3] + left
        rights == {r \in 0..Min(ahi - (i + k) + 1, bhi - (j + k) + 1) :
                      \A d \in 0..(r - 1) : a[i + k + d] = b[j + k + d]}
        right  == CHOOSE r \in rights : \A o \in rights : r >= o
    IN  <<i, j, k + right>>

\* SequenceMatcher.find_longest_match(alo, ahi, blo, bhi), positions from 1
\* and ahi, bhi included: <<alo, blo, 0>> extended when the scan finds no block.
find_longest_match(a, alo, ahi, b, blo, bhi) ==
    LET blocks == CommonBlocks(a, alo, ahi, b, blo, bhi)
    IN  ExtendMatch(a, alo, ahi, b, blo, bhi,
                    IF blocks = {} THEN <<alo, blo, 0>> ELSE LongestMatch(blocks))

RECURSIVE MatchCount(_, _, _, _, _, _)
\* The total size of SequenceMatcher.get_matching_blocks(): the longest match,
\* then the same to its left and to its right; nothing for a match of size 0.
MatchCount(a, alo, ahi, b, blo, bhi) ==
    IF alo > ahi \/ blo > bhi THEN 0
    ELSE LET t == find_longest_match(a, alo, ahi, b, blo, bhi)
         IN  IF t[3] = 0 THEN 0
             ELSE t[3] + MatchCount(a, alo, t[1] - 1, b, blo, t[2] - 1)
                       + MatchCount(a, t[1] + t[3], ahi, b, t[2] + t[3], bhi)

\* The scores n + 1/2 at which the float 100 * (2.0 * matches / length) is
\* not n + 1/2 itself: 54.5 comes out as 54.50000000000001 and 57.5 as
\* 57.49999999999999.  Every other n + 1/2, 0 <= n <= 99, is exact, and a
\* score that is no half is rounded as its exact value is.
FloatAboveHalf == {54}
FloatBelowHalf == {57}

\* utils.intr(100 * (2.0 * matches / length)) for num = 200 * matches and
\* den = length: int(round(x)) of the float, round taking an exact half to
\* the even side.
Intr(num, den) ==
    LET q == num \div den
        r == num % den
    IN  IF 2 * r > den THEN q + 1
        ELSE IF 2 * r < den THEN q
        ELSE IF q \in FloatAboveHalf THEN q + 1
        ELSE IF q \in FloatBelowHalf THEN q
        ELSE q + (q % 2)

\* fuzz.ratio(s1, s2): 100 for equal strings, 0 when one is empty, and else
\* 100 * 2 * matches / (len(s1) + len(s2)), rounded.
ratio(s1, s2) ==
    IF s1 = s2 THEN 100
    ELSE IF Len(s1) = 0 \/ Len(s2) = 0 THEN 0
    ELSE Intr(200 * MatchCount(s1, 1, Len(s1), s2, 1, Len(s2)), Len(s1) + Len(s2))

\* A mutant of Similar: a score equal to the threshold is no match.
SimilarStrict(string, anchor, th) == ratio(string, anchor) > th

\* fuzz.ratio(string, group[0]) >= threshold
Similar(string, anchor, th) == ratio(string, anchor) >= th

\* The groups whose first member string is similar to.
MatchingGroups(groups, string, th) ==
    {g \in 1..Len(groups) : Similar(string, groups[g][1], th)}

\* A mutant of AddToGroups: string joins the last matching group.
AddToGroupsLastMatch(groups, string, th) ==
    LET ms == MatchingGroups(groups, string, th)
    IN  IF ms = {} THEN Append(groups, <<string>>)
        ELSE LET g == CHOOSE m \in ms : \A o \in ms : m >= o
             IN  [groups EXCEPT ![g] = Append(@, string)]

\* The inner loop: string joins the first matching group, or opens a group.
AddToGroups(groups, string, th) ==
    LET ms == MatchingGroups(groups, string, th)
    IN  IF ms = {} THEN Append(groups, <<string>>)
        ELSE LET g == CHOOSE m \in ms : \A o \in ms : m <= o
             IN  [groups EXCEPT ![g] = Append(@, string)]

\* A mutant of ItemsToRemove: a group is removed from four members on.
ItemsToRemoveOverThree(groups) ==
    UNION {Range(groups[g]) : g \in {h \in 1..Len(groups) : Len(groups[h]) > MinGroupSize}}

\* {item for group in similar_groups if len(group) >= 3 for item in group}
ItemsToRemove(groups) ==
    UNION {Range(groups[g]) : g \in {h \in 1..Len(groups) : Len(groups[h]) >= MinGroupSize}}

\* A mutant of Kept: the Language Filter is not applied.
KeptUnfiltered(ss, removed) == SelectSeq(ss, LAMBDA s : s \notin removed)

\* Lines 264-265: the strings not removed, then the Language Filter.
Kept(ss, removed) ==
    filter_strings_with_english_words(SelectSeq(ss, LAMBDA s : s \notin removed))

DedupSamples ==
    { <<>>, <<"a", "b">>, <<"b", "c">>, <<"b">>, <<"p", "a", "g", "e">>,
      <<"P", "a", "g", "e">>, <<"p", "a", "g", "e", "s">>, X51 }
Thresholds == {DefaultThreshold, 75, 100, 101}
MaxStrings == 4

\* Longer strings: two of 40 characters with 23 in common, whose score is the
\* float 57.49999999999999, and one of 12 characters with one of 200 that
\* ends with it, all of whose characters are popular.
A23B17  == Repeat("a", 23) \o Repeat("b", 17)
A23C17  == Repeat("a", 23) \o Repeat("c", 17)
A12     == Repeat("a", 12)
Z188A12 == [k \in 1..AutojunkLen |-> IF k <= AutojunkLen - 12 THEN "z" ELSE "a"]

\* Inputs with the longer strings, each with its threshold.
LongRuns ==
    { <<<<A23B17, A23C17, A23C17>>, 57>>, <<<<A23B17, A23C17, A23C17>>, 58>>,
      <<<<A12, Z188A12, Z188A12>>, 11>>, <<<<Z188A12, A12, A12>>, 11>> }

\* The calls find_similar_strings(strings, threshold) that are run.
DedupRuns == (SeqsUpTo(DedupSamples, MaxStrings) \X Thresholds) \cup LongRuns

\* One pass of the outer loop of lines 250-258.
ClusterString ==
    /\ d_pc = "cluster"
    /\ d_i <= Len(strings)
    /\ similar_groups' = AddToGroups(similar_groups, strings[d_i], threshold)
    /\ d_i' = d_i + 1
    /\ UNCHANGED <<strings, threshold, items_to_remove, filtered_strings, d_pc>>
    /\ UNCHANGED <<segVars, filVars, normVars, orchVars>>

\* Lines 261-267.
RemoveAndReturn ==
    /\ d_pc = "cluster"
    /\ d_i > Len(strings)
    /\ items_to_remove' = ItemsToRemove(similar_groups)
    /\ filtered_strings' = Kept(strings, ItemsToRemove(similar_groups))
    /\ d_pc' = "done"
    /\ UNCHANGED <<strings, threshold, d_i, similar_groups>>
    /\ UNCHANGED <<segVars, filVars, normVars, orchVars>>

----------------------------------------------------------------------------
(* clean_and_chain *)

\* " ....."
Sentinel == <<SP, ".", ".", ".", ".", ".">>

AmpEntity  == <<"&", "a", "m", "p", ";">>
NbspEntity == <<"&", "n", "b", "s", "p", ";">>

\* The position of the first ">" at or after k, 0 if there is none.
NextClose(s, k) ==
    LET closes == {j \in k..Len(s) : s[j] = ">"}
    IN  IF closes = {} THEN 0 ELSE CHOOSE j \in closes : \A o \in closes : j <= o

RECURSIVE TextNodes(_, _, _)
\* The text nodes of the parsed markup from position k on, cur being the node
\* in the making: a tag "<...>" ends the node, and a "<" that opens no tag is text.
TextNodes(s, k, cur) ==
    IF k > Len(s) THEN <<cur>>
    ELSE IF s[k] = "<" /\ NextClose(s, k) # 0
    THEN <<cur>> \o TextNodes(s, NextClose(s, k) + 1, <<>>)
    ELSE TextNodes(s, k + 1, Append(cur, s[k]))

\* The character references the parser resolves in a text node.
DecodeEntities(node) == Replace(Replace(node, NbspEntity, <<NBSP>>), AmpEntity, <<"&">>)

\* BeautifulSoup(text, 'lxml').stripped_strings: every text node, its
\* references resolved, stripped, the empty ones left out.
stripped_strings(text) ==
    LET nodes == TextNodes(text, 1, <<>>)
        clean == [k \in 1..Len(nodes) |-> Strip(DecodeEntities(nodes[k]))]
    IN  SelectSeq(clean, LAMBDA n : n # <<>>)

RECURSIVE RemoveTags(_, _)
\* re.sub('<.*?>', '', s) from position k on: from a "<", the shortest stretch
\* up to a ">" with no newline in it ("." matches no newline).
RemoveTags(s, k) ==
    IF k > Len(s) THEN <<>>
    ELSE LET j == NextClose(s, k)
         IN  IF s[k] = "<" /\ j # 0 /\ \A m \in k..j : s[m] # NL
             THEN RemoveTags(s, j + 1)
             ELSE <<s[k]>> \o RemoveTags(s, k + 1)

\* unicodedata.normalize("NFKD", c) for one character.
NFKDChar(c) ==
    CASE c = EACUTE -> <<"e", COMBACUTE>>
      [] c = NBSP   -> <<SP>>
      [] OTHER      -> <<c>>

\* unicodedata.normalize("NFKD", s)
NFKD(s) == Concat([k \in 1..Len(s) |-> NFKDChar(s[k])])

RECURSIVE SquashRuns(_, _, _, _)
\* re.sub(<a character of S, minLen times or more>, ' ', s) from position k on.
SquashRuns(s, k, S, minLen) ==
    IF k > Len(s) THEN <<>>
    ELSE IF s[k] \notin S THEN <<s[k]>> \o SquashRuns(s, k + 1, S, minLen)
    ELSE LET stops == {j \in k..Len(s) : s[j] \notin S}
             end   == IF stops = {} THEN Len(s) + 1
                      ELSE CHOOSE j \in stops : \A o \in stops : j <= o
         IN  IF end - k >= minLen
             THEN <<SP>> \o SquashRuns(s, end, S, minLen)
             ELSE SubSeq(s, k, end - 1) \o SquashRuns(s, end, S, minLen)

\* A mutant of ReplaceNonAscii: the characters above U+007F are kept.
ReplaceNonAsciiKept(s) == s

\* re.sub(r'[^\x00-\x7F]+', ' ', s)
ReplaceNonAscii(s) == SquashRuns(s, 1, NonAscii, 1)

\* Line 146: the chain of str.replace calls.
ReplaceChain(s) ==
    Replace(Replace(Replace(Replace(Replace(Replace(s,
        <<NL>>, <<SP>>), <<TAB>>, <<SP>>), <<CR>>, <<SP>>),
        NbspEntity, <<SP>>), AmpEntity, <<"&">>), <<"-">>, <<SP>>)

\* re.sub(r'\s{2,}', ' ', s)
CollapseSpaces(s) == SquashRuns(s, 1, Whitespace, 2)

\* Lines 142-148, for a str.
CleanText(text) ==
    CollapseSpaces(ReplaceChain(ReplaceNonAscii(NFKD(RemoveTags(text, 1))))) \o Sentinel

\* A mutant of clean_and_chain: a failure of the first step returns the input.
clean_and_chain_verbatim(text, soupRaises) ==
    IF text = None \/ soupRaises THEN text
    ELSE Strip(CleanText(JoinSpace(stripped_strings(text))))

\* clean_and_chain(text_in).  soupRaises: BeautifulSoup raises on this call
\* (it always does for a value that is no str).  The first try block leaves
\* text_in as it was when it raises; the second one raises for a value that is
\* no str, and then text_in is returned.
clean_and_chain(text, soupRaises) ==
    LET step1Raises == text = None \/ soupRaises
        text_in     == IF step1Raises THEN text ELSE JoinSpace(stripped_strings(text))
    IN  IF text_in = None THEN text_in
        ELSE Strip(CleanText(text_in))

NormAlphabet == {"a", SP, NL, "-", EACUTE, DEL}
MaxTextLen == 3

\* "<p>Café - time</p>\n\n"
CafeTime ==
    <<"<", "p", ">", "C", "a", "f", EACUTE, SP, "-", SP, "t", "i", "m", "e",
      "<", "/", "p", ">", NL, NL>>

TextSamples ==
    { None, CafeTime,
      <<"<", "p", ">", "a", "<", "b", ">", DEL, "<", "/", "b", ">", "<", "/", "p", ">">>,
      <<"a">> \o AmpEntity \o <<"a">>,
      <<"a">> \o NbspEntity \o <<"a">>,
      <<"&", "a", "m", "p", ";", "a", "m", "p", ";", "a", "m", "p", ";">>,
      <<"a", TAB, CR, "a">> }

\* clean_and_chain(x)
Normalize ==
    /\ n_pc = "call"
    /\ \E r \in BOOLEAN :
        /\ n_out' = clean_and_chain(n_in, r)
        /\ n_raises' = <<r>>
    /\ n_pc' = "once"
    /\ UNCHANGED <<n_in, n_out2>>
    /\ UNCHANGED <<segVars, dedVars, filVars, orchVars>>

\* clean_and_chain(clean_and_chain(x))
NormalizeAgain ==
    /\ n_pc = "once"
    /\ \E r \in BOOLEAN :
        /\ n_out2' = clean_and_chain(n_out, r)
        /\ n_raises' = Append(n_raises, r)
    /\ n_pc' = "twice"
    /\ UNCHANGED <<n_in, n_out>>
    /\ UNCHANGED <<segVars, dedVars, filVars, orchVars>>

----------------------------------------------------------------------------
(* find_misspelled_words *)

Letters ==
    { "a", "b", "c", "e", "f", "g", "h", "i", "m", "n", "o", "p", "r", "s", "t",
      "x", "A", "C", "P", "T" }
Digits == {"1", "2"}

\* re.sub(r'[^a-zA-Z0-9\s.]', ' ', text)
SpellClean(text) ==
    [k \in 1..Len(text) |->
        IF text[k] \in Letters \cup Digits \cup Whitespace \cup {"."}
        THEN text[k] ELSE SP]

RECURSIVE WordsFrom(_, _, _)
\* re.findall(r'\S+', s) from position k on, cur being the word in the making.
WordsFrom(s, k, cur) ==
    IF k > Len(s) THEN (IF cur = <<>> THEN <<>> ELSE <<cur>>)
    ELSE IF s[k] \in Whitespace
    THEN (IF cur = <<>> THEN <<>> ELSE <<cur>>) \o WordsFrom(s, k + 1, <<>>)
    ELSE WordsFrom(s, k + 1, Append(cur, s[k]))

\* SpellChecker(): the entries of its dictionary the paragraphs below can hit.
spell ==
    { <<"t", "h", "e">>, <<"p", "a", "g", "e">>, <<"p", "a", "g", "e", "s">>,
      <<"t", "i", "m", "e">> }

find_misspelled_words(text) ==
    SelectSeq(WordsFrom(SpellClean(text), 1, <<>>), LAMBDA word : Lower(word) \notin spell)

----------------------------------------------------------------------------
(* chain_functions, wrapped by modify_return('prepare_audiobook', clean_and_chain) *)

\* What a call that raised leaves in the log of calls.
Raised == <<"Raised">>

ValidModes == {"all", "stop_on_success", "stop_on_failure"}

\* The modifiers and the mode of the decorator of line 155.
ChainModifiers == <<"prepare_audiobook", "clean_and_chain">>
ChainMode      == "all"

\* The functions answered by the AI collaborator.
AIFunctions == {"prepare_audiobook", "edit_audiobook"}

ThePage == <<"t", "h", "e", SP, "p", "a", "g", "e">>

\* What the AI collaborator may answer: nothing (its sign of an error), the
\* text it was given, or a corrected text.
AIReplies(partext) == {<<>>, partext, ThePage}

\* The modifiers a decorator may be given: the two of line 155 and a name
\* that resolves to no function.
ModifierNames == {"prepare_audiobook", "clean_and_chain", "no_such_function"}

\* The modes a decorator may be given: the valid ones and one that is not.
ModeSamples == ValidModes \cup {"first"}
MaxModifiers == 3

\* What apply_modifier(result, modifier) may return, Raised standing for an
\* exception: an AI function answers or fails, clean_and_chain returns, and
\* a name that resolves to no callable raises ValueError (line 39).
ModifierOutcomes(modifier, arg) ==
    IF modifier \in AIFunctions THEN AIReplies(arg) \cup {Raised}
    ELSE IF modifier = "clean_and_chain" THEN {clean_and_chain(arg, r) : r \in BOOLEAN}
    ELSE {Raised}

ParagraphSamples ==
    { ThePage,
      <<"p", "a", "g", "x", SP, "t", "h", "e">>,
      <<"t", "h", "e", "-", "p", "a", "g", "e">>,
      <<"T", "h", "e", SP, "p", "a", "g", "e">>,
      <<>>,
      <<"t", "h", "e", SP, "p", "a", "g", "e", ".">>,
      <<"C", "a", "f", EACUTE, SP, "t", "i", "m", "e">>,
      <<"t", "h", "e", NL, "p", "a", "g", "e", "s", SP>> }

\* modify_return(*modifiers, mode=mode): lines 27-29, then the decorator
\* wraps chain_functions.
Decorate ==
    /\ o_pc = "decorate"
    /\ o_pc' = IF mode \notin ValidModes THEN "ValueError" ELSE "call"
    /\ UNCHANGED <<modifiers, mode, clean_paragraph, result, calls, trace, m_i>>
    /\ UNCHANGED <<segVars, dedVars, filVars, normVars>>

\* wrapper calls chain_functions: lines 166-172 up to the call of edit_audiobook.
CheckSpelling ==
    /\ o_pc = "call"
    /\ trace' = Append(trace, [fn  |-> "find_misspelled_words",
                               arg |-> clean_paragraph,
                               out |-> find_misspelled_words(clean_paragraph)])
    /\ IF find_misspelled_words(clean_paragraph) # <<>>
       THEN /\ o_pc' = "edit"
            /\ UNCHANGED result
       ELSE /\ result' = clean_paragraph
            /\ o_pc' = "modifiers"
    /\ UNCHANGED <<modifiers, mode, clean_paragraph, calls, m_i>>
    /\ UNCHANGED <<segVars, dedVars, filVars, normVars>>

\* edit_audiobook(clean_paragraph) returns: chain_functions returns its answer.
EditReturns ==
    /\ o_pc = "edit"
    /\ \E reply \in AIReplies(clean_paragraph) :
        /\ result' = reply
        /\ calls' = Append(calls, [fn |-> "edit_audiobook", arg |-> clean_paragraph, out |-> reply])
        /\ trace' = Append(trace, [fn |-> "edit_audiobook", arg |-> clean_paragraph, out |-> reply])
    /\ o_pc' = "modifiers"
    /\ UNCHANGED <<modifiers, mode, clean_paragraph, m_i>>
    /\ UNCHANGED <<segVars, dedVars, filVars, normVars>>

\* edit_audiobook raises: line 42 is outside the try, the exception leaves wrapper.
EditRaises ==
    /\ o_pc = "edit"
    /\ calls' = Append(calls, [fn |-> "edit_audiobook", arg |-> clean_paragraph, out |-> Raised])
    /\ trace' = Append(trace, [fn |-> "edit_audiobook", arg |-> clean_paragraph, out |-> Raised])
    /\ o_pc' = "raised"
    /\ UNCHANGED <<modifiers, mode, clean_paragraph, result, m_i>>
    /\ UNCHANGED <<segVars, dedVars, filVars, normVars>>

\* A mutant of ApplyModifier: a modifier that raises ends the loop in every mode.
ApplyModifierStopsOnAnyFailure ==
    /\ o_pc = "modifiers"
    /\ m_i <= Len(modifiers)
    /\ LET modifier == modifiers[m_i]
       IN  \E outcome \in ModifierOutcomes(modifier, result) :
            /\ calls' = IF modifier \in AIFunctions
                        THEN Append(calls, [fn |-> modifier, arg |-> result, out |-> outcome])
                        ELSE calls
            /\ trace' = Append(trace, [fn |-> modifier, arg |-> result, out |-> outcome])
            /\ IF outcome = Raised
               THEN /\ UNCHANGED result
                    /\ o_pc' = "done"
               ELSE /\ result' = outcome
                    /\ o_pc' = IF mode = "stop_on_success" THEN "done" ELSE o_pc
    /\ m_i' = m_i + 1
    /\ UNCHANGED <<modifiers, mode, clean_paragraph>>
    /\ UNCHANGED <<segVars, dedVars, filVars, normVars>>

\* One pass of the loop of lines 43-52.
ApplyModifier ==
    /\ o_pc = "modifiers"
    /\ m_i <= Len(modifiers)
    /\ LET modifier == modifiers[m_i]
       IN  \E outcome \in ModifierOutcomes(modifier, result) :
            /\ calls' = IF modifier \in AIFunctions
                        THEN Append(calls, [fn |-> modifier, arg |-> result, out |-> outcome])
                        ELSE calls
            /\ trace' = Append(trace, [fn |-> modifier, arg |-> result, out |-> outcome])
            /\ IF outcome = Raised
               THEN /\ UNCHANGED result
                    /\ o_pc' = IF mode = "stop_on_failure" THEN "done" ELSE o_pc
               ELSE /\ result' = outcome
                    /\ o_pc' = IF mode = "stop_on_success" THEN "done" ELSE o_pc
    /\ m_i' = m_i + 1
    /\ UNCHANGED <<modifiers, mode, clean_paragraph>>
    /\ UNCHANGED <<segVars, dedVars, filVars, normVars>>

\* Line 53, the loop having run out of modifiers.
WrapperReturn ==
    /\ o_pc = "modifiers"
    /\ m_i > Len(modifiers)
    /\ o_pc' = "done"
    /\ UNCHANGED <<modifiers, mode, clean_paragraph, result, calls, trace, m_i>>
    /\ UNCHANGED <<segVars, dedVars, filVars, normVars>>

----------------------------------------------------------------------------
(* Specifications: one per function, and the five together *)

SegNext  == MergeLine \/ MergeReturn
FilNext  == FilterString \/ FilterReturn
DedNext  == ClusterString \/ RemoveAndReturn
NormNext == Normalize \/ NormalizeAgain
OrchNext == Decorate \/ CheckSpelling \/ EditReturns \/ EditRaises \/ ApplyModifier \/ WrapperReturn

\* The state before the function named by run is called, the other functions
\* not being run.
InitOf(run) ==
    /\ lines \in (IF run = "seg" THEN SeqsUpTo(LineSamples, MaxLines) \cup {HelloWorld}
                  ELSE {<<>>})
    /\ seg_i = 1
    /\ buffer = <<>>
    /\ paragraphs = <<>>
    /\ seg_pc = (IF run = "seg" THEN "loop" ELSE "idle")
    /\ f_strings \in (IF run = "fil" THEN SeqsUpTo(FilterSamples, MaxFilterItems) ELSE {<<>>})
    /\ f_i = 1
    /\ f_filtered = <<>>
    /\ f_pc = (IF run = "fil" THEN "loop" ELSE "idle")
    /\ \E call \in (IF run = "ded" THEN DedupRuns ELSE {<<<<>>, DefaultThreshold>>}) :
          strings = call[1] /\ threshold = call[2]
    /\ d_i = 1
    /\ similar_groups = <<>>
    /\ items_to_remove = {}
    /\ filtered_strings = <<>>
    /\ d_pc = (IF run = "ded" THEN "cluster" ELSE "idle")
    /\ n_in \in (IF run = "norm" THEN SeqsUpTo(NormAlphabet, MaxTextLen) \cup TextSamples
                 ELSE {<<>>})
    /\ n_raises = <<>>
    /\ n_out = None
    /\ n_out2 = None
    /\ n_pc = (IF run = "norm" THEN "call" ELSE "idle")
    /\ modifiers \in (IF run = "mod" THEN SeqsUpTo(ModifierNames, MaxModifiers)
                      ELSE {ChainModifiers})
    /\ mode \in (IF run = "mod" THEN ModeSamples ELSE {ChainMode})
    /\ clean_paragraph \in (IF run \in {"orch", "mod"} THEN ParagraphSamples ELSE {<<>>})
    /\ result = None
    /\ calls = <<>>
    /\ trace = <<>>
    /\ m_i = 1
    /\ o_pc = (IF run \in {"orch", "mod"} THEN "decorate" ELSE "idle")

InitSeg  == InitOf("seg")
InitFil  == InitOf("fil")
InitDed  == InitOf("ded")
InitNorm == InitOf("norm")
InitOrch == InitOf("orch")
InitMod  == InitOf("mod")
Init     == \E run \in {"seg", "fil", "ded", "norm", "orch", "mod"} : InitOf(run)

SpecSeg  == InitSeg /\ [][SegNext]_vars
SpecFil  == InitFil /\ [][FilNext]_vars
SpecDed  == InitDed /\ [][DedNext]_vars
SpecNorm == InitNorm /\ [][NormNext]_vars
SpecOrch == InitOrch /\ [][OrchNext]_vars
SpecMod  == InitMod /\ [][OrchNext]_vars

Next == SegNext \/ FilNext \/ DedNext \/ NormNext \/ OrchNext

Spec == Init /\ [][Next]_vars

----------------------------------------------------------------------------
(* The claims about merge_paragraphs, under SpecSeg *)

LastChar(s) == s[Len(s)]

\* The line is not empty once stripped.
NonBlankLine(line) == Strip(line) # <<>>

\* The last character of the stripped line is '.', '!' or '?'.
TerminalLine(line) == NonBlankLine(line) /\ LastChar(Strip(line)) \in {".", "!", "?"}

TerminalCount(ls) == Cardinality({k \in 1..Len(ls) : TerminalLine(ls[k])})

\* A non-blank line follows the last terminal line (any non-blank line, when
\* no line is terminal).
TailRemains(ls) ==
    \E k \in 1..Len(ls) : NonBlankLine(ls[k]) /\ \A j \in k..Len(ls) : ~TerminalLine(ls[j])

\* C1: merge_paragraphs returns as many paragraphs as there are lines whose
\* last character after trimming is '.', '!' or '?', plus one if a non-blank
\* line follows the last of them.
C1_ParagraphCount ==
    seg_pc = "done" =>
        Len(paragraphs) = TerminalCount(lines) + (IF TailRemains(lines) THEN 1 ELSE 0)

\* A run with a line ending in '!', a blank line and a tail: two paragraphs.
C1_Witness ==
    /\ seg_pc = "done"
    /\ Len(lines) = 3
    /\ \E k \in 1..Len(lines) : TerminalLine(lines[k]) /\ LastChar(Strip(lines[k])) = "!"
    /\ \E k \in 1..Len(lines) : ~NonBlankLine(lines[k])
    /\ TailRemains(lines)
    /\ Len(paragraphs) = 2

\* C2: every paragraph merge_paragraphs returns, but for the last one, ends
\* with '.', '!' or '?'.
C2_OnlyLastUnterminated ==
    seg_pc = "done" =>
        \A k \in 1..(Len(paragraphs) - 1) :
            paragraphs[k] # <<>> /\ LastChar(paragraphs[k]) \in {".", "!", "?"}

\* A run of three paragraphs, the last of which is an unterminated tail.
C2_Witness ==
    /\ seg_pc = "done"
    /\ Len(paragraphs) = 3
    /\ LastChar(paragraphs[3]) \notin {".", "!", "?"}
    /\ LastChar(paragraphs[1]) = "."

\* The non-blank lines, trimmed, in input order.
TrimmedLines(ls) ==
    SelectSeq([k \in 1..Len(ls) |-> Strip(ls[k])], LAMBDA line : line # <<>>)

\* The positions, among the non-blank lines, where a run of lines ends: at
\* every sentence-terminal line and at the last line of the input.
RunEnds(tl) ==
    {k \in 1..Len(tl) : LastChar(tl[k]) \in {".", "!", "?"} \/ k = Len(tl)}

\* The n-th smallest member of a set of numbers.
NthOf(S, n) == CHOOSE e \in S : Cardinality({x \in S : x <= e}) = n

\* The n-th maximal run of non-blank lines: from the line after the end of
\* the run before it up to its own end.
RunOf(tl, n) ==
    LET from == IF n = 1 THEN 1 ELSE NthOf(RunEnds(tl), n - 1) + 1
    IN  SubSeq(tl, from, NthOf(RunEnds(tl), n))

\* C12: the paragraphs merge_paragraphs returns are, in input order, the
\* maximal runs of consecutive non-blank lines, a run ending at a
\* sentence-terminal line or at the end of the input, each run being its
\* trimmed lines joined by single spaces; so no non-blank line is lost,
\* duplicated or reordered.
C12_ParagraphsAreRuns ==
    seg_pc = "done" =>
        LET tl == TrimmedLines(lines)
        IN  /\ Len(paragraphs) = Cardinality(RunEnds(tl))
            /\ \A n \in 1..Len(paragraphs) :
                  /\ paragraphs[n] = JoinSpace(RunOf(tl, n))
                  /\ paragraphs[n] = Strip(paragraphs[n])

\* The example: ["Hello, ", "world.", "How ", "are you?"] has yielded
\* ["Hello, world.", "How are you?"].
C12_Witness ==
    /\ seg_pc = "done"
    /\ lines = HelloWorld
    /\ paragraphs =
          << <<"H", "e", "l", "l", "o", ",", SP, "w", "o", "r", "l", "d", ".">>,
             <<"H", "o", "w", SP, "a", "r", "e", SP, "y", "o", "u", "?">> >>

\* No paragraph collected so far is empty.
NoEmptyParagraph == \A k \in 1..Len(paragraphs) : paragraphs[k] # <<>>

\* An input with no line, or with blank lines only, yields no paragraph.
BlankInputYieldsNothing ==
    (seg_pc = "done" /\ \A k \in 1..Len(lines) : ~NonBlankLine(lines[k])) =>
        paragraphs = <<>>

\* While lines are left or the tail is to be flushed, the function has a
\* step to take: no input stops it short of its return.
NeverStuck == seg_pc = "loop" => ENABLED SegNext

\* The pass over a blank line leaves the buffer and the paragraphs as they were.
BlankLineLeavesAll ==
    (seg_pc = "loop" /\ seg_i <= Len(lines) /\ ~NonBlankLine(lines[seg_i])) =>
        UNCHANGED <<buffer, paragraphs>>

\* C13: merge_paragraphs never returns an empty paragraph and never stops on
\* an input: for no line, or blank lines only, it returns the empty sequence,
\* and a blank line causes no flush and no empty entry.
C13_NoEmptyParagraph ==
    /\ [](NoEmptyParagraph /\ BlankInputYieldsNothing /\ NeverStuck)
    /\ [][BlankLineLeavesAll]_vars

\* A blank line between a non-terminal line and a terminal one: one paragraph
\* of the two lines.
C13_Witness ==
    /\ seg_pc = "done"
    /\ Len(lines) = 3
    /\ NonBlankLine(lines[1]) /\ ~TerminalLine(lines[1])
    /\ lines[2] # <<>> /\ ~NonBlankLine(lines[2])
    /\ TerminalLine(lines[3])
    /\ Len(paragraphs) = 1
    /\ paragraphs[1] = Strip(lines[1]) \o <<SP>> \o Strip(lines[3])

----------------------------------------------------------------------------
(* The claims about find_similar_strings, under SpecDed *)

MinOf(S) == CHOOSE k \in S : \A j \in S : k <= j

\* The positions of G hold three or more strings that each score at least the
\* threshold against the first-seen of them.
AnchorGroup(G) ==
    /\ Cardinality(G) >= 3
    /\ \A k \in G : ratio(strings[k], strings[MinOf(G)]) >= threshold

\* Every string of the group is in removed and none is in kept.
GroupRemoved(G) ==
    \A k \in G : strings[k] \in items_to_remove /\ strings[k] \notin Range(filtered_strings)

\* No string of the group scores the threshold against a string that comes
\* before the group's anchor in the input.
NoEarlierMatch(G) ==
    \A k \in G : \A j \in 1..(MinOf(G) - 1) : ratio(strings[k], strings[j]) < threshold

\* C3, as claimed: any three or more strings that each score at least the
\* threshold against the first-seen of them are all in removed, none in kept.
C3_AnyAnchorGroupRemoved ==
    d_pc = "done" =>
        \A G \in SUBSET (1..Len(strings)) : AnchorGroup(G) => GroupRemoved(G)

\* C3, amended: any three or more strings that each score at least the
\* threshold against the first-seen of them, and each score below it against
\* every string that comes before that anchor in the input, are all in removed
\* and none is in kept.
C3_UnclaimedAnchorGroupRemoved ==
    d_pc = "done" =>
        \A G \in SUBSET (1..Len(strings)) :
            (AnchorGroup(G) /\ NoEarlierMatch(G)) => GroupRemoved(G)

\* A group of three near-duplicates whose anchor is not the first string of
\* the input and whose members are not all equal, removed.
C3_Witness ==
    /\ d_pc = "done"
    /\ \E G \in SUBSET (2..Len(strings)) :
        /\ AnchorGroup(G) /\ NoEarlierMatch(G)
        /\ \E k \in G : strings[k] # strings[MinOf(G)]
        /\ GroupRemoved(G)

\* s is a subsequence of t.
RECURSIVE IsSubsequence(_, _)
IsSubsequence(s, t) ==
    IF s = <<>> THEN TRUE
    ELSE IF t = <<>> THEN FALSE
    ELSE IF Head(s) = Head(t) THEN IsSubsequence(Tail(s), Tail(t))
    ELSE IsSubsequence(s, Tail(t))

\* C10: kept is the input, in its order, without the members of removed and
\* then without the strings the Language Filter rejects; so kept and removed
\* are disjoint and kept is a subsequence of the input.
C10_KeptIsFilteredInput ==
    d_pc = "done" =>
        /\ filtered_strings =
              filter_strings_with_english_words(
                  SelectSeq(strings, LAMBDA s : s \notin items_to_remove))
        /\ Range(filtered_strings) \cap items_to_remove = {}
        /\ IsSubsequence(filtered_strings, strings)

\* A run where strings were removed and another input string is in neither
\* kept nor removed.
C10_Witness ==
    /\ d_pc = "done"
    /\ items_to_remove # {}
    /\ \E k \in 1..Len(strings) :
        strings[k] \notin items_to_remove /\ strings[k] \notin Range(filtered_strings)

\* How many times v occurs in the sequence s.
Occurrences(s, v) == Cardinality({k \in 1..Len(s) : s[k] = v})

\* One cluster holds every occurrence of v in the input.
OneClusterHolds(v) ==
    \E g \in 1..Len(similar_groups) :
        Occurrences(similar_groups[g], v) = Occurrences(strings, v)

\* C11: with a threshold of at most 100, every string that occurs three or
\* more times in the input is in removed and not in kept, whatever strings
\* stand between its occurrences, and all the occurrences of one value are in
\* the same cluster.
C11_RepeatedValueRemoved ==
    (d_pc = "done" /\ threshold <= 100) =>
        \A k \in 1..Len(strings) :
            /\ OneClusterHolds(strings[k])
            /\ Occurrences(strings, strings[k]) >= 3 =>
                  /\ strings[k] \in items_to_remove
                  /\ strings[k] \notin Range(filtered_strings)

\* A value that occurs three times, with a string of another cluster between
\* two of its occurrences: the value is removed, the other string is not.
C11_Witness ==
    /\ d_pc = "done"
    /\ threshold <= 100
    /\ \E i, j, k \in 1..Len(strings) :
        /\ i < j /\ j < k
        /\ strings[i] = strings[k]
        /\ Occurrences(strings, strings[i]) >= 3
        /\ strings[j] \notin items_to_remove
        /\ strings[i] \in items_to_remove
        /\ OneClusterHolds(strings[i])

\* The clusters whose anchor (first member) scores at least the threshold
\* against s.
AnchorsMatching(s) ==
    {g \in 1..Len(similar_groups) : ratio(s, similar_groups[g][1]) >= threshold}

\* One string is clustered: it is appended to the first cluster whose anchor
\* matches it, or, no anchor matching, it opens a cluster of its own after
\* the others; every other cluster, every anchor and the order of the
\* clusters are as before.
ClusterStep ==
    (d_pc = "cluster" /\ d_i' = d_i + 1) =>
        LET s == strings[d_i]
            M == AnchorsMatching(s)
            n == Len(similar_groups)
        IN  /\ \A g \in 1..n : similar_groups'[g][1] = similar_groups[g][1]
            /\ IF M = {}
               THEN /\ Len(similar_groups') = n + 1
                    /\ similar_groups'[n + 1] = <<s>>
                    /\ \A g \in 1..n : similar_groups'[g] = similar_groups[g]
               ELSE /\ Len(similar_groups') = n
                    /\ \A g \in 1..n :
                          similar_groups'[g] = IF g = MinOf(M)
                                               THEN Append(similar_groups[g], s)
                                               ELSE similar_groups[g]

\* The clusters hold the strings read so far, each occurrence once.
ClustersPartitionInput ==
    LET members == Concat(similar_groups)
        read    == SubSeq(strings, 1, d_i - 1)
    IN  /\ Len(members) = Len(read)
        /\ \A k \in 1..Len(read) : Occurrences(members, read[k]) = Occurrences(read, read[k])
        /\ \A g \in 1..Len(similar_groups) : similar_groups[g] # <<>>

\* C14: each input string is compared with the anchors of the clusters, in
\* the order the clusters were opened, and appended to the first cluster
\* whose anchor scores >= threshold (a score equal to the threshold is a
\* match); it opens a single-member cluster only if no anchor matches.
\* Anchors never change, clusters are not merged or reordered, and every
\* input occurrence ends up in exactly one cluster.
C14_FirstMatchClustering ==
    [][ClusterStep]_vars /\ []ClustersPartitionInput

\* The third string scores exactly the threshold against the first, the
\* anchor of one cluster, and more against the second, the anchor of a later
\* cluster: it is in the earlier cluster.
C14_Witness ==
    /\ d_pc = "done"
    /\ \E g, h \in 1..Len(similar_groups) : \E k \in 2..Len(similar_groups[g]) :
        /\ g < h
        /\ ratio(similar_groups[g][k], similar_groups[g][1]) = threshold
        /\ ratio(similar_groups[g][k], similar_groups[h][1]) > threshold
        /\ strings[1] = similar_groups[g][1]
        /\ strings[2] = similar_groups[h][1]
        /\ strings[3] = similar_groups[g][k]

----------------------------------------------------------------------------
(* The claim about filter_strings_with_english_words, under SpecFil *)

\* A token of more than 3 characters that is, lower-cased, in the lexicon.
LexiconToken(string) ==
    \E k \in 1..Len(word_tokenize(string)) :
        LET token == word_tokenize(string)[k]
        IN  Len(token) > 3 /\ Lower(token) \in english_words

\* C9: the filter keeps every item of more than 50 characters, and an item of
\* 50 characters or fewer if and only if one of its tokens is longer than 3
\* characters and, lower-cased, in the lexicon; the output is the kept items
\* in their input order.
C9_FilterPolicy ==
    f_pc = "done" =>
        f_filtered = SelectSeq(f_strings, LAMBDA s : Len(s) > 50 \/ LexiconToken(s))

\* A run over a string of 51 characters with no word, kept, after one of 50
\* characters with no word, dropped.
C9_Witness ==
    /\ f_pc = "done"
    /\ Len(f_strings) = 2
    /\ Len(f_strings[1]) = 50 /\ ~LexiconToken(f_strings[1])
    /\ Len(f_strings[2]) = 51 /\ ~LexiconToken(f_strings[2])
    /\ f_filtered = <<f_strings[2]>>

----------------------------------------------------------------------------
(* The claims about clean_and_chain, under SpecNorm *)

\* s ends with the five full stops of the sentinel.
EndsWithSentinel(s) ==
    Len(s) >= 5 /\ SubSeq(s, Len(s) - 4, Len(s)) = <<".", ".", ".", ".", ".">>

\* The first call's step 1 (markup stripping) raised.
Step1Raised == n_in = None \/ n_raises[1]

\* The first call's step 2 (tag-pattern removal) raised: re.sub was handed a
\* value that is no str.
Step2Raised == n_in = None

\* C6, as claimed: if step 1 or step 2 raises, normalize returns the input it
\* was called with, verbatim, with no sentinel.
C6_FailureReturnsInput ==
    (n_pc = "once" /\ (Step1Raised \/ Step2Raised)) => n_out = n_in

\* C6, amended: if step 2 raises, normalize returns the input it was called
\* with, verbatim; if only step 1 raises, normalize goes on from step 2 with
\* the input it was called with, and returns it cleaned, tags removed and
\* the sentinel appended.
C6_FailureSemantics ==
    n_pc = "once" =>
        /\ Step2Raised => n_out = n_in
        /\ (Step1Raised /\ ~Step2Raised) =>
              /\ n_out = Strip(CleanText(n_in))
              /\ EndsWithSentinel(n_out)
              /\ "<" \notin Range(n_out)

\* Step 1 raised on a text with markup and n_out is that text cleaned, not
\* the text itself.
C6_Witness ==
    /\ n_pc = "once"
    /\ Step1Raised /\ ~Step2Raised
    /\ "<" \in Range(n_in)
    /\ EACUTE \in Range(n_in)
    /\ n_out # n_in
    /\ EndsWithSentinel(n_out)

\* The characters that are not printable ASCII.
Unprintable == NonAscii \cup {NL, TAB, CR, DEL}

\* C7, as claimed: what normalize returns, when it does not pass its input
\* through, holds printable ASCII characters only.
C7_PrintableAsciiOnly ==
    (n_pc = "once" /\ ~Step2Raised) => Range(n_out) \cap Unprintable = {}

\* C7, amended: what normalize returns, when it does not pass its input
\* through, holds ASCII characters only and no newline, tab or carriage
\* return; the other ASCII control characters, DEL for one, are left in.
C7_AsciiNoControlWhitespace ==
    (n_pc = "once" /\ ~Step2Raised) =>
        Range(n_out) \cap (NonAscii \cup {NL, TAB, CR}) = {}

\* A text with a character above U+007F, a newline and DEL: the first two are
\* gone from n_out and DEL is still there.
C7_Witness ==
    /\ n_pc = "once"
    /\ ~Step1Raised
    /\ {EACUTE, NL, DEL} \subseteq Range(n_in)
    /\ DEL \in Range(n_out)
    /\ Range(n_out) \cap (NonAscii \cup {NL, TAB, CR}) = {}

\* C8: normalize(normalize(x)) is normalize(x) with one more sentinel at its
\* end, for every str x that normalize cleans with no step raising.
C8_IdempotentUpToSentinel ==
    (n_pc = "twice" /\ n_in # None /\ ~n_raises[1] /\ ~n_raises[2]) =>
        n_out2 = n_out \o Sentinel

----------------------------------------------------------------------------
(* The claims about chain_functions, under SpecOrch *)

\* What normalize may return for the text.
Normalized(text) == {clean_and_chain(text, r) : r \in BOOLEAN}

\* C4: when the spelling check finds no unrecognized token in the paragraph,
\* no AI collaborator is called and the text returned is the normalized
\* paragraph.
C4_ShortCircuit ==
    (o_pc = "done" /\ find_misspelled_words(clean_paragraph) = <<>>) =>
        /\ calls = <<>>
        /\ result \in Normalized(clean_paragraph)

\* Every AI collaborator that was called returned the empty result.
AllRepliesEmpty == calls # <<>> /\ \A k \in 1..Len(calls) : calls[k].out = <<>>

\* C5: when the AI correction returns an empty result, the text returned is
\* the paragraph's own normalized text, never an empty or content-free one.
C5_EmptyReplyKeepsText ==
    (o_pc = "done" /\ AllRepliesEmpty) =>
        /\ result \in Normalized(clean_paragraph)
        /\ clean_paragraph # <<>> => result \notin Normalized(<<>>)

\* The positions of the trace where fn was called.
CallsOf(fn) == {k \in 1..Len(trace) : trace[k].fn = fn}

\* C15: the steps are taken in the order normalize, spelling check, external
\* correction: normalization is applied exactly once and before the spelling
\* check, the spelling check is run on the normalized text, and the text
\* handed to the external correction is the normalized text.
C15_NormalizeFirst ==
    o_pc = "done" =>
        /\ Cardinality(CallsOf("clean_and_chain")) = 1
        /\ \A n \in CallsOf("clean_and_chain") : \A c \in CallsOf("find_misspelled_words") :
              n < c
        /\ \A c \in CallsOf("find_misspelled_words") : \A e \in CallsOf("edit_audiobook") :
              c < e
        /\ \A c \in CallsOf("find_misspelled_words") \cup CallsOf("edit_audiobook") :
              trace[c].arg \in Normalized(clean_paragraph)

----------------------------------------------------------------------------
(* The claim about modify_return, under SpecMod *)

\* The attempts at modifiers, in the order they were made.
ModTrace == SelectSeq(trace, LAMBDA call : call.fn \in ModifierNames)

\* What the wrapped function returned: the answer of edit_audiobook when it
\* was called, the paragraph itself when it was not.
FuncResult ==
    IF CallsOf("edit_audiobook") = {} THEN clean_paragraph
    ELSE trace[MinOf(CallsOf("edit_audiobook"))].out

RECURSIVE Running(_)
\* The running result after the first k attempts: an attempt that raised
\* leaves it as it was, one that returned replaces it.
Running(k) ==
    IF k = 0 THEN FuncResult
    ELSE IF ModTrace[k].out = Raised THEN Running(k - 1)
    ELSE ModTrace[k].out

\* The attempts that raised, and those that returned.
Failed    == {k \in 1..Len(ModTrace) : ModTrace[k].out = Raised}
Succeeded == {k \in 1..Len(ModTrace) : ModTrace[k].out # Raised}

\* C16: the modifiers are applied to the wrapped function's return value in
\* the order given, each to the running result, and one that raises leaves
\* the running result as it was.  Mode 'all' attempts every modifier;
\* 'stop_on_failure' stops at the first that raises and returns the result
\* as it was before it; 'stop_on_success' stops right after the first that
\* returns, the ones that raised before it skipped.  Any other mode is
\* rejected with ValueError before the function is wrapped or called.
C16_ModifierChain ==
    /\ mode \notin ValidModes =>
          o_pc \in {"decorate", "ValueError"} /\ trace = <<>> /\ result = None
    /\ o_pc \in {"modifiers", "done"} =>
          /\ Len(ModTrace) <= Len(modifiers)
          /\ \A k \in 1..Len(ModTrace) :
                /\ ModTrace[k].fn = modifiers[k]
                /\ ModTrace[k].arg = Running(k - 1)
          /\ result = Running(Len(ModTrace))
    /\ o_pc = "done" =>
          /\ mode = "all" => Len(ModTrace) = Len(modifiers)
          /\ mode = "stop_on_failure" =>
                /\ Failed \subseteq {Len(ModTrace)}
                /\ Failed = {} => Len(ModTrace) = Len(modifiers)
                /\ Failed # {} => result = Running(Len(ModTrace) - 1)
          /\ mode = "stop_on_success" =>
                /\ Succeeded \subseteq {Len(ModTrace)}
                /\ Succeeded = {} => Len(ModTrace) = Len(modifiers)

\* Mode 'stop_on_success' with three modifiers: the first raised and was
\* skipped, the second returned and the third was never attempted.
C16_Witness ==
    /\ o_pc = "done"
    /\ mode = "stop_on_success"
    /\ Len(modifiers) = 3
    /\ Len(ModTrace) = 2
    /\ ModTrace[1].out = Raised
    /\ ModTrace[2].out # Raised
    /\ result = ModTrace[2].out
    /\ result # FuncResult

============================================================================
